---- MODULE Spec2Model ----
(***************************************************************************)
(* Per-user sequential job processing over Redis Streams                   *)
(* (packages/ai-api/src/ai_api/streams, queue/utils.py, main.py).          *)
(*                                                                         *)
(* One stream per user ("stream:user:<id>"), one consumer group "workers", *)
(* one consumer per worker process ("worker-<pid>").  A worker process     *)
(* runs run_stream_consumer: discover the active streams, run one          *)
(* process_user_stream task per discovered user, gather them, sleep, and   *)
(* start over.  process_chat_job_direct is the job executor; the HTTP side *)
(* appends entries (add_message_to_stream) and polls (get_job_status).     *)
(***************************************************************************)
EXTENDS Naturals, Integers, Sequences, FiniteSets, TLC

\* ------------------------------------------------------------------ bounds
Users == {"u1", "u2"}

Procs == {"p1", "p2"}

\* entries appended to the streams, all users together
MaxEntries == 2

\* the maxlen of add_message_to_stream, scaled down from 1000
StreamMaxLen == 1

\* fragments the agent yields for one job
MaxTokens == 1

\* failures injected in one behaviour: exceptions raised by Redis, by the
\* database or by the agent, and kills of the process
MaxFaults == 1

\* settings.queue_chunk_ttl and settings.arq_keep_result, in seconds
queue_chunk_ttl == 3600

arq_keep_result == 3600

Tokens == {"a", "b"}

\* an absent value (Python's None); a present value x is <<x>>
None == <<>>

Some(x) == <<x>>

\* the text of the document failure answer (processor.py:150)
DocErrorText == <<"sorry">>

EntryIds == 1..MaxEntries

\* a job is identified by its user and the position of its entry
Jobs == Users \X EntryIds

Min(a, b) == IF a < b THEN a ELSE b

VARIABLES
    stream,     \* [Users -> Seq(EntryIds)]   entries held by stream:user:<u>
    lastId,     \* [Users -> Nat]             id of the last entry XADD made
    jobDoc,     \* [Jobs -> BOOLEAN]          has_document of the appended job
    group,      \* [Users -> [created, last, pel]]  consumer group "workers"
    chunks,     \* [Jobs -> Seq([index, content])]  job:chunks:<job>
    meta,       \* [Jobs -> None or record]   job:meta:<job>
    messages,   \* [Users -> Seq([role, content])] assistant messages saved
    sup,        \* [Procs -> [pc, running, scanned, startKeys, active]];
                \* running is running_flag["running"], which nothing clears
                \* while the loop of run_stream_consumer is running
    pid,        \* [Procs -> Nat]             os.getpid() of the incarnation
    runner,     \* [Procs -> [Users -> [pc, id, full, chunk_index, msg]]]
    poll,       \* the request of get_job_status in flight
    outcome,    \* [Jobs -> ...]   history: how the executor call ended
    owner,      \* [Jobs -> ...]   history: the consumer the entry was delivered to
    metaWrites, \* [Jobs -> Nat]   history: number of set_job_metadata calls done
    newAtStart, \* [Procs -> SUBSET Users] history: streams with undelivered
                \*                  entries when the discovery began
    faults,     \* Nat             history: failures injected so far
    expired     \* SUBSET (kinds \X Jobs)  history: the keys job:chunks:<job>
                \*                  and job:meta:<job> that Redis expired

vars == <<stream, lastId, jobDoc, group, chunks, meta, messages, sup, pid,
          runner, poll, outcome, owner, metaWrites, newAtStart, faults,
          expired>>

redisVars == <<stream, lastId, jobDoc, group, chunks, meta>>

\* ---------------------------------------------------------------- helpers
\* CONSUMER_ID = f"worker-{os.getpid()}"
CONSUMER_ID(p) == <<p, pid[p]>>

IdleRunner == [pc |-> "none", id |-> 0, full |-> <<>>, chunk_index |-> 0,
               msg |-> 0]

IdleSup == [pc |-> "cycle", running |-> TRUE, scanned |-> {},
            startKeys |-> {}, active |-> {}]

NoPoll == [pc |-> "idle", job |-> <<"u1", 1>>, status |-> "",
           metaSeen |-> None, chunksSeen |-> <<>>, response |-> None]

Range(s) == {s[i] : i \in 1..Len(s)}

\* the key stream:user:<u> exists (XADD or XGROUP CREATE ... MKSTREAM made it)
KeyExists(u) == lastId[u] > 0 \/ group[u].created

\* ids of the group's pending entries list
PelIds(u) == {e.id : e \in group[u].pel}

\* entries of the stream never delivered to the group
Undelivered(u) == {i \in Range(stream[u]) : i > group[u].last}

Init ==
    /\ stream = [u \in Users |-> <<>>]
    /\ lastId = [u \in Users |-> 0]
    /\ jobDoc = [j \in Jobs |-> FALSE]
    /\ group = [u \in Users |-> [created |-> FALSE, last |-> 0, pel |-> {}]]
    /\ chunks = [j \in Jobs |-> <<>>]
    /\ meta = [j \in Jobs |-> None]
    /\ messages = [u \in Users |-> <<>>]
    /\ sup = [p \in Procs |-> IdleSup]
    /\ pid = [p \in Procs |-> 1]
    /\ runner = [p \in Procs |-> [u \in Users |-> IdleRunner]]
    /\ poll = NoPoll
    /\ outcome = [j \in Jobs |-> "none"]
    /\ owner = [j \in Jobs |-> None]
    /\ metaWrites = [j \in Jobs |-> 0]
    /\ newAtStart = [p \in Procs |-> {}]
    /\ faults = 0
    /\ expired = {}

RECURSIVE SumOver(_, _)
SumOver(f, S) ==
    IF S = {} THEN 0
    ELSE LET x == CHOOSE y \in S : TRUE IN f[x] + SumOver(f, S \ {x})

TotalAppended == SumOver(lastId, Users)

\* ------------------------------------------------- streams/manager.py
\* Trimmed evicting from the wrong end
Trimmed_KeepsOldest(s, keep) == SubSeq(s, 1, keep)

\* XADD ... MAXLEN ~ maxlen: the entry is appended and the oldest entries
\* beyond the bound may be evicted; at least maxlen entries are kept.
Trimmed(s, keep) == SubSeq(s, Len(s) - keep + 1, Len(s))

add_message_to_stream(u, doc) ==
    /\ TotalAppended < MaxEntries
    /\ LET id == lastId[u] + 1
           appended == Append(stream[u], id)
       IN /\ \E keep \in Min(Len(appended), StreamMaxLen)..Len(appended) :
                stream' = [stream EXCEPT ![u] = Trimmed(appended, keep)]
          /\ lastId' = [lastId EXCEPT ![u] = id]
          /\ jobDoc' = [jobDoc EXCEPT ![<<u, id>>] = doc]
    /\ UNCHANGED <<expired, group, chunks, meta, messages, sup, pid, runner, poll,
                   outcome, owner, metaWrites, newAtStart, faults>>

\* ensure_consumer_group creating the group at the end of the log (id="$"):
\* none of the entries of the log is new to the group
ensure_consumer_group_AtEnd(g) ==
    IF g.created THEN g ELSE [created |-> TRUE, last |-> MaxEntries, pel |-> {}]

\* XGROUP CREATE stream GROUP_NAME id="0" mkstream=True; BUSYGROUP is ignored
ensure_consumer_group(g) ==
    IF g.created THEN g ELSE [created |-> TRUE, last |-> 0, pel |-> {}]

\* NewEntries returning the pending entries as well as the new ones
NewEntries_WithPending(s, g) ==
    {i \in Range(s) : i > g.last \/ i \in {e.id : e \in g.pel}}

\* XREADGROUP GROUP workers <consumer> COUNT 1 STREAMS key ">":
\* the entries of the stream with an id above the group's last delivered id
NewEntries(s, g) == {i \in Range(s) : i > g.last}

SetMin(S) == CHOOSE x \in S : \A y \in S : x <= y

\* the group after entry id was delivered to consumer c
Delivered(g, id, c) ==
    [g EXCEPT !.last = id, !.pel = @ \cup {[id |-> id, consumer |-> c]}]

\* XACK stream GROUP_NAME id
acknowledge_message(g, id) == [g EXCEPT !.pel = {e \in @ : e.id # id}]

\* ------------------------------------------------ streams/consumer.py
\* XPENDING stream GROUP_NAME raises when the group does not exist, and the
\* caller passes; XREAD from 0-0 returns the first entry of the stream.
HasPending(u) == group[u].created /\ Cardinality(group[u].pel) > 0

HasMessages(u) == Len(stream[u]) > 0

\* IsActive without the XREAD check
IsActive_PendingOnly(u) == HasPending(u)

IsActive(u) == HasPending(u) \/ HasMessages(u)

BeginDiscovery(p) ==
    /\ sup[p].pc = "cycle"
    /\ sup[p].running
    /\ sup' = [sup EXCEPT ![p] = [@ EXCEPT !.pc = "scan", !.scanned = {},
                                  !.startKeys = {u \in Users : KeyExists(u)},
                                  !.active = {}]]
    /\ newAtStart' = [newAtStart EXCEPT
                        ![p] = {u \in Users : Undelivered(u) # {}}]
    /\ UNCHANGED <<expired, redisVars, messages, pid, runner, poll, outcome, owner,
                   metaWrites, faults>>

\* one key returned by SCAN, and its two checks
DiscoverKey(p, u) ==
    /\ sup[p].pc = "scan"
    /\ KeyExists(u)
    /\ u \notin sup[p].scanned
    /\ sup' = [sup EXCEPT ![p] = [@ EXCEPT
                 !.scanned = @ \cup {u},
                 !.active = IF IsActive(u) THEN @ \cup {u} ELSE @]]
    /\ UNCHANGED <<expired, redisVars, messages, pid, runner, poll, outcome, owner,
                   metaWrites, newAtStart, faults>>

\* SCAN or XREAD raises: nothing in run_stream_consumer catches it, the
\* coroutine ends and so does the process
DiscoverFail(p) ==
    /\ faults < MaxFaults
    /\ faults' = faults + 1
    /\ sup[p].pc = "scan"
    /\ sup' = [sup EXCEPT ![p] = [@ EXCEPT !.pc = "terminated"]]
    /\ UNCHANGED <<expired, redisVars, messages, pid, runner, poll, outcome, owner,
                   metaWrites, newAtStart>>

\* cursor == 0: the set is returned; one task per user is created and
\* gathered, or the loop sleeps and starts over
DiscoverDone(p) ==
    /\ sup[p].pc = "scan"
    /\ sup[p].startKeys \subseteq sup[p].scanned
    /\ IF sup[p].active # {}
       THEN /\ sup' = [sup EXCEPT ![p] = [@ EXCEPT !.pc = "gather"]]
            /\ runner' = [runner EXCEPT ![p] =
                 [u \in Users |-> IF u \in sup[p].active
                                  THEN [IdleRunner EXCEPT !.pc = "loop"]
                                  ELSE IdleRunner]]
       ELSE /\ sup' = [sup EXCEPT ![p] = [@ EXCEPT !.pc = "cycle"]]
            /\ UNCHANGED runner
    /\ UNCHANGED <<expired, redisVars, messages, pid, poll, outcome, owner,
                   metaWrites, newAtStart, faults>>

\* GatherDone without the wait for the tasks
GatherDone_NoWait(p) ==
    /\ sup[p].pc = "gather"
    /\ sup' = [sup EXCEPT ![p] = [@ EXCEPT !.pc = "cycle"]]
    /\ runner' = [runner EXCEPT ![p] = [u \in Users |-> IdleRunner]]
    /\ UNCHANGED <<expired, redisVars, messages, pid, poll, outcome, owner,
                   metaWrites, newAtStart, faults>>

\* asyncio.gather returns when every task has returned; then sleep(1)
GatherDone(p) ==
    /\ sup[p].pc = "gather"
    /\ \A u \in sup[p].active : runner[p][u].pc = "exited"
    /\ sup' = [sup EXCEPT ![p] = [@ EXCEPT !.pc = "cycle"]]
    /\ runner' = [runner EXCEPT ![p] = [u \in Users |-> IdleRunner]]
    /\ UNCHANGED <<expired, redisVars, messages, pid, poll, outcome, owner,
                   metaWrites, newAtStart, faults>>

\* ---------------------------------------- process_user_stream (consumer.py)
SetRunner(p, u, r) == [runner EXCEPT ![p][u] = r]

\* read_stream_messages returned an entry: process_single_message is entered
ClaimEntry(p, u) ==
    /\ runner[p][u].pc = "loop"
    /\ sup[p].running
    /\ LET g == ensure_consumer_group(group[u])
           new == NewEntries(stream[u], g)
       IN /\ new # {}
          /\ LET id == SetMin(new)
             IN /\ group' = [group EXCEPT ![u] = Delivered(g, id, CONSUMER_ID(p))]
                /\ runner' = SetRunner(p, u, [IdleRunner EXCEPT !.pc = "start",
                                                                !.id = id])
                /\ owner' = [owner EXCEPT ![<<u, id>>] = CONSUMER_ID(p)]
                /\ outcome' = [outcome EXCEPT ![<<u, id>>] = "running"]
    /\ UNCHANGED <<expired, stream, lastId, jobDoc, chunks, meta, messages, sup, pid,
                   poll, metaWrites, newAtStart, faults>>

\* ClaimNothing with continue in the place of break: the Runner reads again
ClaimNothing_ReadsAgain(p, u) ==
    /\ runner[p][u].pc = "loop"
    /\ sup[p].running
    /\ LET g == ensure_consumer_group(group[u])
       IN /\ NewEntries(stream[u], g) = {}
          /\ group' = [group EXCEPT ![u] = g]
    /\ runner' = SetRunner(p, u, [IdleRunner EXCEPT !.pc = "loop"])
    /\ UNCHANGED <<expired, stream, lastId, jobDoc, chunks, meta, messages,
                   sup, pid, poll, outcome, owner, metaWrites, newAtStart,
                   faults>>

\* read_stream_messages returned nothing within the block time: break
ClaimNothing(p, u) ==
    /\ runner[p][u].pc = "loop"
    /\ sup[p].running
    /\ LET g == ensure_consumer_group(group[u])
       IN /\ NewEntries(stream[u], g) = {}
          /\ group' = [group EXCEPT ![u] = g]
    /\ runner' = SetRunner(p, u, [IdleRunner EXCEPT !.pc = "exited"])
    /\ UNCHANGED <<expired, stream, lastId, jobDoc, chunks, meta, messages, sup, pid,
                   poll, outcome, owner, metaWrites, newAtStart, faults>>

\* ClaimFail with the exception reaching asyncio.gather and the main loop
ClaimFail_Propagates(p, u) ==
    /\ faults < MaxFaults
    /\ faults' = faults + 1
    /\ runner[p][u].pc = "loop"
    /\ sup[p].running
    /\ runner' = SetRunner(p, u, [IdleRunner EXCEPT !.pc = "exited"])
    /\ sup' = [sup EXCEPT ![p] = [@ EXCEPT !.pc = "terminated"]]
    /\ UNCHANGED <<expired, redisVars, messages, pid, poll, outcome, owner,
                   metaWrites, newAtStart>>

\* XREADGROUP raises (ensure_consumer_group before it did or did not get
\* through): the except of process_user_stream logs and sleeps
ClaimFail(p, u) ==
    /\ faults < MaxFaults
    /\ faults' = faults + 1
    /\ runner[p][u].pc = "loop"
    /\ sup[p].running
    /\ \E g \in {group[u], ensure_consumer_group(group[u])} :
          group' = [group EXCEPT ![u] = g]
    /\ runner' = SetRunner(p, u, [IdleRunner EXCEPT !.pc = "backoff"])
    /\ UNCHANGED <<expired, stream, lastId, jobDoc, chunks, meta, messages, sup, pid,
                   poll, outcome, owner, metaWrites, newAtStart>>

\* asyncio.sleep(1) of the except, then the while condition again
Backoff(p, u) ==
    /\ runner[p][u].pc = "backoff"
    /\ runner' = SetRunner(p, u, [IdleRunner EXCEPT !.pc = "loop"])
    /\ UNCHANGED <<expired, redisVars, messages, sup, pid, poll, outcome, owner,
                   metaWrites, newAtStart, faults>>

\* acknowledge_message after process_single_message returned
Acknowledge(p, u) ==
    /\ runner[p][u].pc = "ack"
    /\ group' = [group EXCEPT ![u] = acknowledge_message(@, runner[p][u].id)]
    /\ runner' = SetRunner(p, u, [IdleRunner EXCEPT !.pc = "loop"])
    /\ UNCHANGED <<expired, stream, lastId, jobDoc, chunks, meta, messages, sup, pid,
                   poll, outcome, owner, metaWrites, newAtStart, faults>>

\* XACK raises
AcknowledgeFail(p, u) ==
    /\ faults < MaxFaults
    /\ faults' = faults + 1
    /\ runner[p][u].pc = "ack"
    /\ runner' = SetRunner(p, u, [IdleRunner EXCEPT !.pc = "backoff"])
    /\ UNCHANGED <<expired, redisVars, messages, sup, pid, poll, outcome, owner,
                   metaWrites, newAtStart>>

\* ------------------------------------------------------- queue/utils.py
\* RPUSH job:chunks:<job> {"index": index, "content": content, ...}
save_job_chunk(c, index, content) ==
    Append(c, [index |-> index, content |-> content])

\* LRANGE job:chunks:<job> start_index -1, each element parsed
get_job_chunks(job, start_index) ==
    SubSeq(chunks[job], start_index + 1, Len(chunks[job]))

\* GET job:meta:<job>: None when the key is absent
get_job_metadata(job) == meta[job]

\* ------------------------------- process_chat_job_direct (processor.py)
ExecPcs == {"start", "doc", "doc_chunk", "doc_msg", "doc_meta",
            "stream", "chunk", "msg", "meta"}

JobOf(p, u) == <<u, runner[p][u].id>>

\* save_message(db, jid, "assistant", content, ...): the new row and its id
save_message(u, content) ==
    Append(messages[u], [role |-> "assistant", content |-> content])

\* the content saved by the except branch
PartialContent(full) == <<"[Partial - Error] ">> \o full

\* ExecStart waiting until no other job of the process is being executed
ExecStart_OneAtATime(p, u) ==
    /\ runner[p][u].pc = "start"
    /\ \A v \in Users \ {u} : runner[p][v].pc \notin ExecPcs
    /\ runner' = SetRunner(p, u, [runner[p][u] EXCEPT
                   !.pc = IF jobDoc[JobOf(p, u)] THEN "doc" ELSE "stream"])
    /\ UNCHANGED <<expired, redisVars, messages, sup, pid, poll, outcome,
                   owner, metaWrites, newAtStart, faults>>

\* ExecStart storing the metadata of the job when the job starts
ExecStart_WritesRecord(p, u) ==
    /\ runner[p][u].pc = "start"
    /\ meta' = [meta EXCEPT ![JobOf(p, u)] =
                  Some([total_chunks |-> 0, db_message_id |-> 0,
                        error |-> FALSE])]
    /\ runner' = SetRunner(p, u, [runner[p][u] EXCEPT
                   !.pc = IF jobDoc[JobOf(p, u)] THEN "doc" ELSE "stream"])
    /\ UNCHANGED <<expired, stream, lastId, jobDoc, group, chunks, messages,
                   sup, pid, poll, outcome, owner, metaWrites, newAtStart,
                   faults>>

\* Steps 1 to 2.5: history, embedding service, clients
ExecStart(p, u) ==
    /\ runner[p][u].pc = "start"
    /\ runner' = SetRunner(p, u, [runner[p][u] EXCEPT
                   !.pc = IF jobDoc[JobOf(p, u)] THEN "doc" ELSE "stream"])
    /\ UNCHANGED <<expired, redisVars, messages, sup, pid, poll, outcome, owner,
                   metaWrites, newAtStart, faults>>

\* Step 2.6: process_pdf_document returned
ExecDocOk(p, u) ==
    /\ runner[p][u].pc = "doc"
    /\ runner' = SetRunner(p, u, [runner[p][u] EXCEPT !.pc = "stream"])
    /\ UNCHANGED <<expired, redisVars, messages, sup, pid, poll, outcome, owner,
                   metaWrites, newAtStart, faults>>

\* Step 2.6: process_pdf_document raised; the answer is the error text
ExecDocFail(p, u) ==
    /\ runner[p][u].pc = "doc"
    /\ runner' = SetRunner(p, u, [runner[p][u] EXCEPT !.pc = "doc_chunk",
                                                      !.full = DocErrorText])
    /\ UNCHANGED <<expired, redisVars, messages, sup, pid, poll, outcome, owner,
                   metaWrites, newAtStart, faults>>

ExecDocSaveChunk(p, u) ==
    /\ runner[p][u].pc = "doc_chunk"
    /\ chunks' = [chunks EXCEPT ![JobOf(p, u)] =
                    save_job_chunk(@, 0, runner[p][u].full)]
    /\ runner' = SetRunner(p, u, [runner[p][u] EXCEPT !.pc = "doc_msg"])
    /\ UNCHANGED <<expired, stream, lastId, jobDoc, group, meta, messages, sup, pid,
                   poll, outcome, owner, metaWrites, newAtStart, faults>>

ExecDocSaveMessage(p, u) ==
    /\ runner[p][u].pc = "doc_msg"
    /\ messages' = [messages EXCEPT ![u] = save_message(u, runner[p][u].full)]
    /\ runner' = SetRunner(p, u, [runner[p][u] EXCEPT !.pc = "doc_meta"])
    /\ UNCHANGED <<expired, redisVars, sup, pid, poll, outcome, owner, metaWrites,
                   newAtStart, faults>>

\* ExecDocSetMeta without the return: the executor goes on to the agent
ExecDocSetMeta_FallsThrough(p, u) ==
    /\ runner[p][u].pc = "doc_meta"
    /\ meta' = [meta EXCEPT ![JobOf(p, u)] =
                  Some([total_chunks |-> 1, db_message_id |-> 0,
                        error |-> TRUE])]
    /\ metaWrites' = [metaWrites EXCEPT ![JobOf(p, u)] = @ + 1]
    /\ runner' = SetRunner(p, u, [runner[p][u] EXCEPT !.pc = "stream",
                                                      !.full = <<>>])
    /\ UNCHANGED <<expired, stream, lastId, jobDoc, group, chunks, messages,
                   sup, pid, poll, outcome, owner, newAtStart, faults>>

\* set_job_metadata with total_chunks 1 and the error, then return
ExecDocSetMeta(p, u) ==
    /\ runner[p][u].pc = "doc_meta"
    /\ meta' = [meta EXCEPT ![JobOf(p, u)] =
                  Some([total_chunks |-> 1, db_message_id |-> 0,
                        error |-> TRUE])]
    /\ metaWrites' = [metaWrites EXCEPT ![JobOf(p, u)] = @ + 1]
    /\ outcome' = [outcome EXCEPT ![JobOf(p, u)] = "returned"]
    /\ runner' = SetRunner(p, u, [IdleRunner EXCEPT !.pc = "ack",
                                                    !.id = runner[p][u].id])
    /\ UNCHANGED <<expired, stream, lastId, jobDoc, group, chunks, messages, sup, pid,
                   poll, owner, newAtStart, faults>>

\* Step 4: one fragment of get_ai_response: full_response += token
ExecToken(p, u, t) ==
    /\ runner[p][u].pc = "stream"
    /\ Len(runner[p][u].full) < MaxTokens
    /\ runner' = SetRunner(p, u, [runner[p][u] EXCEPT !.full = Append(@, t)])
    /\ UNCHANGED <<expired, redisVars, messages, sup, pid, poll, outcome, owner,
                   metaWrites, newAtStart, faults>>

\* the agent's stream ended
ExecStreamEnd(p, u) ==
    /\ runner[p][u].pc = "stream"
    /\ runner' = SetRunner(p, u, [runner[p][u] EXCEPT !.pc = "chunk"])
    /\ UNCHANGED <<expired, redisVars, messages, sup, pid, poll, outcome, owner,
                   metaWrites, newAtStart, faults>>

\* ExecSaveChunk with chunk_index set before the save and used as the index
ExecSaveChunk_IndexAfterCount(p, u) ==
    /\ runner[p][u].pc = "chunk"
    /\ chunks' = [chunks EXCEPT ![JobOf(p, u)] =
                    save_job_chunk(@, 1, runner[p][u].full)]
    /\ runner' = SetRunner(p, u, [runner[p][u] EXCEPT !.pc = "msg",
                                                      !.chunk_index = 1])
    /\ UNCHANGED <<expired, stream, lastId, jobDoc, group, meta, messages,
                   sup, pid, poll, outcome, owner, metaWrites, newAtStart,
                   faults>>

\* "Save complete response as single chunk"; chunk_index = 1
ExecSaveChunk(p, u) ==
    /\ runner[p][u].pc = "chunk"
    /\ chunks' = [chunks EXCEPT ![JobOf(p, u)] =
                    save_job_chunk(@, 0, runner[p][u].full)]
    /\ runner' = SetRunner(p, u, [runner[p][u] EXCEPT !.pc = "msg",
                                                      !.chunk_index = 1])
    /\ UNCHANGED <<expired, stream, lastId, jobDoc, group, meta, messages, sup, pid,
                   poll, outcome, owner, metaWrites, newAtStart, faults>>

\* ExecSaveMessage going on to the metadata without saving the message
ExecSaveMessage_NoSave(p, u) ==
    /\ runner[p][u].pc = "msg"
    /\ runner' = SetRunner(p, u, [runner[p][u] EXCEPT !.pc = "meta"])
    /\ UNCHANGED <<expired, redisVars, messages, sup, pid, poll, outcome,
                   owner, metaWrites, newAtStart, faults>>

\* Steps 5 and 6: the embedding (its failure is swallowed) and save_message
ExecSaveMessage(p, u) ==
    /\ runner[p][u].pc = "msg"
    /\ messages' = [messages EXCEPT ![u] = save_message(u, runner[p][u].full)]
    /\ runner' = SetRunner(p, u, [runner[p][u] EXCEPT
                                    !.pc = "meta",
                                    !.msg = Len(messages[u]) + 1])
    /\ UNCHANGED <<expired, redisVars, sup, pid, poll, outcome, owner, metaWrites,
                   newAtStart, faults>>

\* ExecSetMeta returning without the call of set_job_metadata
ExecSetMeta_NoRecord(p, u) ==
    /\ runner[p][u].pc = "meta"
    /\ outcome' = [outcome EXCEPT ![JobOf(p, u)] = "returned"]
    /\ runner' = SetRunner(p, u, [IdleRunner EXCEPT !.pc = "ack",
                                                    !.id = runner[p][u].id])
    /\ UNCHANGED <<expired, redisVars, messages, sup, pid, poll, owner, metaWrites,
                   newAtStart, faults>>

\* Step 7: set_job_metadata, then return through the finally, which closes
\* the HTTP client and the database session and is taken not to raise
ExecSetMeta(p, u) ==
    /\ runner[p][u].pc = "meta"
    /\ meta' = [meta EXCEPT ![JobOf(p, u)] =
                  Some([total_chunks |-> runner[p][u].chunk_index,
                        db_message_id |-> runner[p][u].msg,
                        error |-> FALSE])]
    /\ metaWrites' = [metaWrites EXCEPT ![JobOf(p, u)] = @ + 1]
    /\ outcome' = [outcome EXCEPT ![JobOf(p, u)] = "returned"]
    /\ runner' = SetRunner(p, u, [IdleRunner EXCEPT !.pc = "ack",
                                                    !.id = runner[p][u].id])
    /\ UNCHANGED <<expired, stream, lastId, jobDoc, group, chunks, messages, sup, pid,
                   poll, owner, newAtStart, faults>>

\* ExecRaise with the entry acknowledged by the except of the Runner
ExecRaise_Acknowledges(p, u, saved) ==
    /\ faults < MaxFaults
    /\ faults' = faults + 1
    /\ runner[p][u].pc \in ExecPcs
    /\ messages' = [messages EXCEPT ![u] =
                      IF runner[p][u].full # <<>> /\ saved
                      THEN save_message(u, PartialContent(runner[p][u].full))
                      ELSE @]
    /\ group' = [group EXCEPT ![u] = acknowledge_message(@, runner[p][u].id)]
    /\ outcome' = [outcome EXCEPT ![JobOf(p, u)] = "raised"]
    /\ runner' = SetRunner(p, u, [IdleRunner EXCEPT !.pc = "backoff"])
    /\ UNCHANGED <<expired, stream, lastId, jobDoc, chunks, meta, sup, pid,
                   poll, owner, metaWrites, newAtStart>>

\* ExecRaise without the raise at the end of the except: the executor
\* returns and the Runner acknowledges
ExecRaise_Swallows(p, u, saved) ==
    /\ faults < MaxFaults
    /\ faults' = faults + 1
    /\ runner[p][u].pc \in ExecPcs
    /\ messages' = [messages EXCEPT ![u] =
                      IF runner[p][u].full # <<>> /\ saved
                      THEN save_message(u, PartialContent(runner[p][u].full))
                      ELSE @]
    /\ outcome' = [outcome EXCEPT ![JobOf(p, u)] = "returned"]
    /\ runner' = SetRunner(p, u, [IdleRunner EXCEPT !.pc = "ack",
                                                    !.id = runner[p][u].id])
    /\ UNCHANGED <<expired, redisVars, sup, pid, poll, owner, metaWrites,
                   newAtStart>>

\* ExecRaise with the exception leaving process_user_stream: the task ends
ExecRaise_Propagates(p, u, saved) ==
    /\ faults < MaxFaults
    /\ faults' = faults + 1
    /\ runner[p][u].pc \in ExecPcs
    /\ messages' = [messages EXCEPT ![u] =
                      IF runner[p][u].full # <<>> /\ saved
                      THEN save_message(u, PartialContent(runner[p][u].full))
                      ELSE @]
    /\ outcome' = [outcome EXCEPT ![JobOf(p, u)] = "raised"]
    /\ runner' = SetRunner(p, u, [IdleRunner EXCEPT !.pc = "exited"])
    /\ UNCHANGED <<expired, redisVars, sup, pid, poll, owner, metaWrites, newAtStart>>

\* an exception anywhere in the try: the partial response, when there is
\* one, is saved (best effort), the exception is raised again and the
\* except of process_user_stream logs and sleeps
ExecRaise(p, u, saved) ==
    /\ faults < MaxFaults
    /\ faults' = faults + 1
    /\ runner[p][u].pc \in ExecPcs
    /\ messages' = [messages EXCEPT ![u] =
                      IF runner[p][u].full # <<>> /\ saved
                      THEN save_message(u, PartialContent(runner[p][u].full))
                      ELSE @]
    /\ outcome' = [outcome EXCEPT ![JobOf(p, u)] = "raised"]
    /\ runner' = SetRunner(p, u, [IdleRunner EXCEPT !.pc = "backoff"])
    /\ UNCHANGED <<expired, redisVars, sup, pid, poll, owner, metaWrites, newAtStart>>

\* ------------------------------------------------------ the process itself
\* the process is killed: its tasks are gone with it
Kill(p) ==
    /\ faults < MaxFaults
    /\ faults' = faults + 1
    /\ sup[p].pc \notin {"dead", "terminated"}
    /\ sup' = [sup EXCEPT ![p] = [IdleSup EXCEPT !.pc = "dead"]]
    /\ runner' = [runner EXCEPT ![p] = [u \in Users |-> IdleRunner]]
    /\ outcome' = [j \in Jobs |->
                     IF runner[p][j[1]].pc \in ExecPcs /\ runner[p][j[1]].id = j[2]
                     THEN "killed" ELSE outcome[j]]
    /\ newAtStart' = [newAtStart EXCEPT ![p] = {}]
    /\ UNCHANGED <<expired, redisVars, messages, pid, poll, owner, metaWrites>>

\* run_stream_worker is started again: a new pid, a new consumer name
Restart(p) ==
    /\ sup[p].pc \in {"dead", "terminated"}
    /\ pid' = [pid EXCEPT ![p] = @ + 1]
    /\ sup' = [sup EXCEPT ![p] = IdleSup]
    /\ newAtStart' = [newAtStart EXCEPT ![p] = {}]
    /\ UNCHANGED <<expired, redisVars, messages, runner, poll, outcome, owner,
                   metaWrites, faults>>

\* ------------------------------------------------------ Redis key expiry
\* job:chunks:<job> reaches the TTL that save_job_chunk gave it with EXPIRE
ExpireChunks(j) ==
    /\ chunks[j] # <<>>
    /\ chunks' = [chunks EXCEPT ![j] = <<>>]
    /\ expired' = expired \cup {<<"chunks", j>>}
    /\ UNCHANGED <<stream, lastId, jobDoc, group, meta, messages, sup, pid,
                   runner, poll, outcome, owner, metaWrites, newAtStart,
                   faults>>

\* job:meta:<job> reaches the TTL that set_job_metadata gave it with SET EX.
\* ExpireMeta of a record written with a shorter TTL than the chunks have:
\* it can be gone while the chunks are still there
ExpireMeta_ShorterTtl(j) ==
    /\ meta[j] # None
    /\ meta' = [meta EXCEPT ![j] = None]
    /\ expired' = expired \cup {<<"meta", j>>}
    /\ UNCHANGED <<stream, lastId, jobDoc, group, chunks, messages, sup, pid,
                   runner, poll, outcome, owner, metaWrites, newAtStart,
                   faults>>

\* The chunk of the job was saved before its metadata was set: when the TTL
\* of the chunks is not the longer one, the chunks are gone by then.
ExpireMeta(j) ==
    /\ meta[j] # None
    /\ queue_chunk_ttl <= arq_keep_result => chunks[j] = <<>>
    /\ meta' = [meta EXCEPT ![j] = None]
    /\ expired' = expired \cup {<<"meta", j>>}
    /\ UNCHANGED <<stream, lastId, jobDoc, group, chunks, messages, sup, pid,
                   runner, poll, outcome, owner, metaWrites, newAtStart,
                   faults>>

\* ------------------------------------------------------------- main.py
\* StatusOf without the check of the chunks
StatusOf_NoChunkCheck(metadata, chunkList) ==
    IF metadata # None THEN "complete" ELSE "in_progress"

\* get_stream_job_status, from what its reads returned: the metadata, and
\* the chunks when there is no metadata
StatusOf(metadata, chunkList) ==
    IF metadata # None THEN "complete"
    ELSE IF chunkList # <<>> THEN "in_progress"
    ELSE "queued"

RECURSIVE Join(_)
\* "".join(chunk["content"] for chunk in chunks)
Join(chunkList) ==
    IF chunkList = <<>> THEN <<>>
    ELSE Head(chunkList).content \o Join(Tail(chunkList))

\* JobStatusResponse assembling the chunks whatever the status is
JobStatusResponse_AlwaysAssembles(status, chunkList) ==
    [status |-> status,
     chunks |-> chunkList,
     total_chunks |-> Len(chunkList),
     complete |-> (status = "complete"),
     full_response |-> IF chunkList # <<>>
                       THEN Some(Join(chunkList)) ELSE None]

\* JobStatusResponse of get_job_status
JobStatusResponse(status, chunkList) ==
    [status |-> status,
     chunks |-> chunkList,
     total_chunks |-> Len(chunkList),
     complete |-> (status = "complete"),
     full_response |-> IF status = "complete" /\ chunkList # <<>>
                       THEN Some(Join(chunkList)) ELSE None]

\* GET /chat/job/<job>: get_stream_job_status reads the metadata ...
PollReadMeta(job) ==
    /\ poll.pc = "idle"
    /\ job[2] <= lastId[job[1]]
    /\ LET metadata == get_job_metadata(job)
       IN poll' = [NoPoll EXCEPT
                     !.job = job,
                     !.metaSeen = metadata,
                     !.status = IF metadata # None
                                THEN StatusOf(metadata, <<>>) ELSE "",
                     !.pc = IF metadata # None THEN "chunks" ELSE "status"]
    /\ UNCHANGED <<expired, redisVars, messages, sup, pid, runner, outcome, owner,
                   metaWrites, newAtStart, faults>>

\* ... and, without metadata, the chunks
PollReadStatusChunks ==
    /\ poll.pc = "status"
    /\ LET chunkList == get_job_chunks(poll.job, 0)
       IN poll' = [poll EXCEPT !.chunksSeen = chunkList,
                               !.status = StatusOf(poll.metaSeen, chunkList),
                               !.pc = "chunks"]
    /\ UNCHANGED <<expired, redisVars, messages, sup, pid, runner, outcome, owner,
                   metaWrites, newAtStart, faults>>

\* get_job_status reads the chunks and builds the response
PollRespond ==
    /\ poll.pc = "chunks"
    /\ poll' = [poll EXCEPT
                  !.pc = "idle",
                  !.response = Some(JobStatusResponse(
                                  poll.status, get_job_chunks(poll.job, 0)))]
    /\ UNCHANGED <<expired, redisVars, messages, sup, pid, runner, outcome, owner,
                   metaWrites, newAtStart, faults>>

RunnerStep(p, u) ==
    \/ ClaimEntry(p, u)
    \/ ClaimNothing(p, u)
    \/ ClaimFail(p, u)
    \/ Backoff(p, u)
    \/ Acknowledge(p, u)
    \/ AcknowledgeFail(p, u)

ExecutorStep(p, u) ==
    \/ ExecStart(p, u)
    \/ ExecDocOk(p, u)
    \/ ExecDocFail(p, u)
    \/ ExecDocSaveChunk(p, u)
    \/ ExecDocSaveMessage(p, u)
    \/ ExecDocSetMeta(p, u)
    \/ \E t \in Tokens : ExecToken(p, u, t)
    \/ ExecStreamEnd(p, u)
    \/ ExecSaveChunk(p, u)
    \/ ExecSaveMessage(p, u)
    \/ ExecSetMeta(p, u)
    \/ \E saved \in BOOLEAN : ExecRaise(p, u, saved)

SupervisorStep(p) ==
    \/ BeginDiscovery(p)
    \/ \E u \in Users : DiscoverKey(p, u)
    \/ DiscoverFail(p)
    \/ DiscoverDone(p)
    \/ GatherDone(p)

Producer == \E u \in Users, doc \in BOOLEAN : add_message_to_stream(u, doc)

Next ==
    \/ Producer
    \/ \E p \in {"p1"} : SupervisorStep(p)
    \/ \E p \in {"p1"}, u \in Users : RunnerStep(p, u)
    \/ \E p \in {"p1"}, u \in Users : ExecutorStep(p, u)
    \/ \E p \in {"p1"} : Kill(p) \/ Restart(p)

Spec == Init /\ [][Next]_vars

\* the HTTP side polling while one worker process runs without failures
Poller ==
    \/ \E job \in Jobs : PollReadMeta(job)
    \/ PollReadStatusChunks
    \/ PollRespond

RunnerOk(p, u) ==
    \/ ClaimEntry(p, u)
    \/ ClaimNothing(p, u)
    \/ Acknowledge(p, u)

ExecutorOk(p, u) ==
    \/ ExecStart(p, u)
    \/ ExecDocOk(p, u)
    \/ ExecDocFail(p, u)
    \/ ExecDocSaveChunk(p, u)
    \/ ExecDocSaveMessage(p, u)
    \/ ExecDocSetMeta(p, u)
    \/ \E t \in Tokens : ExecToken(p, u, t)
    \/ ExecStreamEnd(p, u)
    \/ ExecSaveChunk(p, u)
    \/ ExecSaveMessage(p, u)
    \/ ExecSetMeta(p, u)

SupervisorOk(p) ==
    \/ BeginDiscovery(p)
    \/ \E u \in Users : DiscoverKey(p, u)
    \/ DiscoverDone(p)
    \/ GatherDone(p)

NextPoll ==
    \/ Producer
    \/ \E p \in {"p1"} : SupervisorOk(p)
    \/ \E p \in {"p1"}, u \in Users : RunnerOk(p, u)
    \/ \E p \in {"p1"}, u \in Users : ExecutorOk(p, u)
    \/ Poller

SpecPoll == Init /\ [][NextPoll]_vars

\* two worker processes on the same streams, jobs without documents
ProducerPlain == \E u \in Users : add_message_to_stream(u, FALSE)

ExecutorPlain(p, u) ==
    \/ ExecStart(p, u)
    \/ \E t \in Tokens : ExecToken(p, u, t)
    \/ ExecStreamEnd(p, u)
    \/ ExecSaveChunk(p, u)
    \/ ExecSaveMessage(p, u)
    \/ ExecSetMeta(p, u)

NextMulti ==
    \/ ProducerPlain
    \/ \E p \in Procs : SupervisorOk(p)
    \/ \E p \in Procs, u \in Users : RunnerOk(p, u)
    \/ \E p \in Procs, u \in Users : ExecutorPlain(p, u)

SpecMulti == Init /\ [][NextMulti]_vars

\* one worker process without failures, scheduled fairly: the event loop
\* runs every task that can go on and Redis answers; the executor of a u1
\* job is the one thing that may take for ever
NextLive ==
    \/ ProducerPlain
    \/ \E p \in {"p1"} : SupervisorOk(p)
    \/ \E p \in {"p1"}, u \in Users : RunnerOk(p, u)
    \/ \E p \in {"p1"}, u \in Users : ExecutorPlain(p, u)

SpecLive ==
    /\ Init
    /\ [][NextLive]_vars
    /\ WF_vars(SupervisorOk("p1"))
    /\ \A u \in Users : WF_vars(RunnerOk("p1", u))
    /\ WF_vars(ExecutorPlain("p1", "u2"))

\* one worker process, its failures, and the expiry of the job keys
Expiry == \E j \in Jobs : ExpireChunks(j) \/ ExpireMeta(j)

NextExpiry ==
    \/ Next
    \/ Expiry

SpecExpiry == Init /\ [][NextExpiry]_vars

\* the HTTP side polling while the job keys expire
NextPollExpiry ==
    \/ NextPoll
    \/ Expiry

SpecPollExpiry == Init /\ [][NextPollExpiry]_vars

\* one worker process that stays alive, with the failures that a Runner
\* catches, scheduled fairly: the event loop runs every task that can go
\* on, Redis answers, and every executor call goes on to its return or
\* raises
RunnerFair(p, u) ==
    \/ RunnerOk(p, u)
    \/ Backoff(p, u)

NextTerm ==
    \/ Producer
    \/ \E p \in {"p1"} : SupervisorOk(p)
    \/ \E p \in {"p1"}, u \in Users : RunnerStep(p, u)
    \/ \E p \in {"p1"}, u \in Users : ExecutorStep(p, u)

SpecTerm ==
    /\ Init
    /\ [][NextTerm]_vars
    /\ WF_vars(SupervisorOk("p1"))
    /\ \A u \in Users : WF_vars(RunnerFair("p1", u))
    /\ \A u \in Users : WF_vars(ExecutorOk("p1", u))

\* ================================================================ claims
Claimed(job) == outcome[job] # "none"

\* the entries of u that consumer c was given, below entry b
EarlierOf(c, u, b) == {a \in 1..(b - 1) : owner[<<u, a>>] = c}

\* the runner of (p, u) holds a claimed entry: executor running or ack due
Holding(p, u) == runner[p][u].pc \in ExecPcs \cup {"ack"}

\* C1 as stated, for the entries A that were claimed themselves: once entry
\* B of a conversation is claimed, the Completion Record of every entry A
\* appended before B has been written.
C1_RecordBeforeNextClaim ==
    \A u \in Users : \A b \in 1..lastId[u] : \A a \in 1..(b - 1) :
        (Claimed(<<u, b>>) /\ Claimed(<<u, a>>)) => metaWrites[<<u, a>>] >= 1

\* C1 amended: while a worker process holds entry B of a conversation, every
\* entry A of the conversation that the same process claimed before B has
\* ended its execution; its Completion Record has been written when the
\* executor returned and has not when it raised.
C1_EarlierFinishedBeforeClaim ==
    \A p \in Procs, u \in Users :
        Holding(p, u) =>
            \A a \in EarlierOf(CONSUMER_ID(p), u, runner[p][u].id) :
                /\ outcome[<<u, a>>] \in {"returned", "raised"}
                /\ outcome[<<u, a>>] = "returned" => metaWrites[<<u, a>>] >= 1
                /\ outcome[<<u, a>>] = "raised" => metaWrites[<<u, a>>] = 0

\* the second entry was just claimed by the process that ran the first one
\* to its Completion Record
C1_Witness ==
    \E p \in Procs, u \in Users :
        /\ runner[p][u].pc = "start"
        /\ runner[p][u].id = 2
        /\ owner[<<u, 1>>] = CONSUMER_ID(p)
        /\ outcome[<<u, 1>>] = "returned"
        /\ metaWrites[<<u, 1>>] = 1

\* C2: within one worker process the executions of one conversation do not
\* overlap and start in append order: when the process claims an entry, no
\* entry it claimed before is still executing, and every entry it claimed
\* before is an older one.
C2_SequentialInOrder ==
    [][\A p \in Procs, u \in Users :
          (runner[p][u].pc = "loop" /\ runner'[p][u].pc = "start") =>
              \A i \in 1..lastId[u] :
                  owner[<<u, i>>] = CONSUMER_ID(p) =>
                      /\ i < runner'[p][u].id
                      /\ outcome[<<u, i>>] # "running"]_vars

\* a process executes its second entry of a conversation after its first
C2_Witness ==
    \E p \in Procs, u \in Users :
        /\ runner[p][u].pc \in ExecPcs
        /\ runner[p][u].id = 2
        /\ owner[<<u, 1>>] = CONSUMER_ID(p)
        /\ outcome[<<u, 1>>] \in {"returned", "raised"}

\* C3 as stated: an entry whose execution was cut by a kill of the process
\* is claimed again after the restart: when a Runner of its conversation is
\* about to claim, read_stream_messages returns that entry.
C3_KilledEntryClaimedAgain ==
    \A p \in Procs, u \in Users : \A i \in 1..lastId[u] :
        (runner[p][u].pc = "loop" /\ outcome[<<u, i>>] = "killed") =>
            LET new == NewEntries(stream[u], ensure_consumer_group(group[u]))
            IN new # {} /\ SetMin(new) = i

\* C4 as stated: no two worker processes execute jobs of the same
\* conversation at the same time.
C4_OneExecutionPerConversation ==
    \A u \in Users :
        Cardinality({p \in Procs : runner[p][u].pc \in ExecPcs}) <= 1

\* C5 as stated, with u1 the slow conversation and u2 the unrelated one:
\* every entry of u2's log that was not delivered yet is delivered later.
C5_OtherConversationProgresses ==
    \A i \in EntryIds :
        (i \in Undelivered("u2")) ~> (i \notin Undelivered("u2"))

\* C6: when the executor raises, no Completion Record is written for the
\* job (its status is never complete), the Runner goes to its sleep and from
\* there back to the claim of the next entry.
C6_RunnerAdvancesAfterFailure ==
    /\ [](\A j \in Jobs :
            outcome[j] = "raised" =>
                /\ metaWrites[j] = 0
                /\ StatusOf(get_job_metadata(j), get_job_chunks(j, 0))
                       # "complete")
    /\ [][\A p \in Procs, u \in Users :
            /\ (runner[p][u].pc \in ExecPcs
                    /\ outcome'[JobOf(p, u)] = "raised")
                   => (runner'[p][u].pc = "backoff" /\ sup'[p] = sup[p])
            /\ (runner[p][u].pc = "backoff" /\ runner'[p][u].pc # "backoff")
                   => (runner'[p][u].pc = "loop" \/ sup'[p].pc = "dead")]_vars

\* the first job of a conversation raised, its status is not complete, and
\* the same Runner executes the second entry
C6_Witness ==
    \E p \in Procs, u \in Users :
        /\ outcome[<<u, 1>>] = "raised"
        /\ StatusOf(get_job_metadata(<<u, 1>>), get_job_chunks(<<u, 1>>, 0))
               = "in_progress"
        /\ runner[p][u].pc \in ExecPcs
        /\ runner[p][u].id = 2
        /\ owner[<<u, 1>>] = owner[<<u, 2>>]

\* C7: an error raised in one Runner (claim, executor or acknowledge) puts
\* that Runner to its sleep and changes neither the other Runners of the
\* process nor its main loop.
C7_TaskIsolation ==
    [][\A p \in Procs :
          (/\ faults' = faults + 1
           /\ sup[p].pc = "gather"
           /\ sup'[p].pc # "dead"
           /\ runner'[p] # runner[p])
          => /\ sup'[p] = sup[p]
             /\ \E u \in Users :
                   /\ runner'[p][u].pc = "backoff"
                   /\ \A v \in Users \ {u} : runner'[p][v] = runner[p][v]]_vars

\* one Runner sleeps after an error while the Runner of the other
\* conversation is still executing its job
C7_Witness ==
    \E p \in Procs, u \in Users, v \in Users :
        /\ u # v
        /\ faults = 1
        /\ sup[p].pc = "gather"
        /\ runner[p][u].pc = "backoff"
        /\ runner[p][v].pc \in ExecPcs

\* C8 as stated: every appended entry that was not claimed yet, or that is
\* claimed and not acknowledged, is still in the log.
C8_UnclaimedNeverTrimmed ==
    \A u \in Users : \A i \in 1..lastId[u] :
        (i > group[u].last \/ i \in PelIds(u)) => i \in Range(stream[u])

\* C8 amended: the log keeps its newest maxlen entries; an entry, claimed or
\* not, is in the log as long as fewer than maxlen entries were appended
\* after it.
C8_NewestKept ==
    \A u \in Users : \A i \in 1..lastId[u] :
        i > lastId[u] - StreamMaxLen =>
            /\ i \in Range(stream[u])
            /\ (i > group[u].last => i \in Undelivered(u))

\* an entry was evicted before any claim and the newest one is in the log
C8_Witness ==
    \E u \in Users :
        /\ lastId[u] > StreamMaxLen
        /\ 1 \notin Range(stream[u])
        /\ group[u].last = 0
        /\ lastId[u] \in Range(stream[u])

\* C9: when discover_active_streams has returned, its result holds every
\* conversation whose log held an undelivered entry when it was called.
C9_DiscoveryOmitsNothing ==
    \A p \in Procs :
        sup[p].pc \in {"gather", "cycle"} => newAtStart[p] \subseteq sup[p].active

\* a conversation with entries and no consumer group yet was discovered
C9_Witness ==
    \E p \in Procs, u \in Users :
        /\ sup[p].pc = "gather"
        /\ u \in newAtStart[p]
        /\ u \in sup[p].active
        /\ ~group[u].created

\* C10: the status is complete iff the read of the metadata found a
\* Completion Record, in_progress iff it found none and the read of the
\* chunks found at least one, queued otherwise.
C10_StatusFromStore ==
    poll.status # "" =>
        /\ poll.status \in {"complete", "in_progress", "queued"}
        /\ (poll.status = "complete") <=> (poll.metaSeen # None)
        /\ (poll.status = "in_progress")
              <=> (poll.metaSeen = None /\ Len(poll.chunksSeen) >= 1)
        /\ (poll.status = "queued")
              <=> (poll.metaSeen = None /\ Len(poll.chunksSeen) = 0)

\* a poll between the save of the chunk and the write of the Completion
\* Record answered in_progress
C10_Witness ==
    /\ poll.pc = "idle"
    /\ poll.response # None
    /\ poll.status = "in_progress"
    /\ poll.metaSeen = None
    /\ Len(poll.chunksSeen) = 1

\* what get_stream_job_status answers for the job in the current state
StatusNow(j) == StatusOf(get_job_metadata(j), get_job_chunks(j, 0))

\* C11 as stated, its last part: once a job reads complete, every later
\* status read of the job returns complete.
C11_CompleteForEver ==
    [][\A j \in Jobs :
          StatusNow(j) = "complete" => StatusNow(j)' = "complete"]_vars

\* C11 amended: a job whose entry was not claimed reads queued; the status
\* reaches complete from in_progress (from queued only when the chunks have
\* expired before the record was written); and the status goes back only by
\* the expiry of a key: from complete when job:meta:<job> expires, from
\* in_progress when job:chunks:<job> expires.
C11_StatusAdvancesUntilExpiry ==
    /\ [](\A j \in Jobs : outcome[j] = "none" => StatusNow(j) = "queued")
    /\ [][\A j \in Jobs :
            /\ (StatusNow(j) = "queued" /\ StatusNow(j)' = "complete")
                   => <<"chunks", j>> \in expired
            /\ (StatusNow(j) = "complete" /\ StatusNow(j)' # "complete")
                   => (<<"meta", j>> \in expired' \ expired)
            /\ (StatusNow(j) = "in_progress" /\ StatusNow(j)' = "queued")
                   => (<<"chunks", j>> \in expired' \ expired)]_vars

\* a job that was executed to its Completion Record reads queued again after
\* the record has expired
C11_Witness ==
    \E j \in Jobs :
        /\ outcome[j] = "returned"
        /\ metaWrites[j] = 1
        /\ <<"meta", j>> \in expired
        /\ StatusNow(j) = "queued"

\* C12: the index stored in every chunk of a job is its position in the
\* list, counted from 0 (indices 0..N-1, no gap, no duplicate), and a step
\* of the program that changes the list of a job (any step but the expiry
\* of the key) appends one chunk whose index is the length the list had.
C12_ChunkIndexIsPosition ==
    /\ [](\A j \in Jobs : \A i \in 1..Len(chunks[j]) :
            chunks[j][i].index = i - 1)
    /\ [][\A j \in Jobs :
            (chunks'[j] # chunks[j] /\ expired' = expired) =>
                /\ Len(chunks'[j]) = Len(chunks[j]) + 1
                /\ SubSeq(chunks'[j], 1, Len(chunks[j])) = chunks[j]
                /\ chunks'[j][Len(chunks'[j])].index = Len(chunks[j])]_vars

\* a completed job whose chunk list is read back with the index 0
C12_Witness ==
    \E j \in Jobs :
        /\ outcome[j] = "returned"
        /\ meta[j] # None
        /\ Len(get_job_chunks(j, 0)) = 1
        /\ get_job_chunks(j, 0)[1].index = 0

\* C13 as stated: while the agent is streaming, the job has one chunk for
\* each fragment received so far, and reads in_progress as soon as there is
\* one.
C13_ChunkPerFragment ==
    \A p \in Procs, u \in Users :
        runner[p][u].pc = "stream" =>
            /\ Len(get_job_chunks(JobOf(p, u), 0)) = Len(runner[p][u].full)
            /\ Len(runner[p][u].full) >= 1
                   => StatusNow(JobOf(p, u)) = "in_progress"

RECURSIVE ConcatByIndex(_, _)
\* the contents of the chunks with the indices i, i + 1, ... in that order
ConcatByIndex(chunkList, i) ==
    IF \A c \in Range(chunkList) : c.index # i THEN <<>>
    ELSE (CHOOSE c \in Range(chunkList) : c.index = i).content
             \o ConcatByIndex(chunkList, i + 1)

\* C14: a poll response has a full_response only when its status is
\* complete, and the full_response is then the contents of the chunks of
\* the response put together in index order.
C14_FullResponseOnlyWhenComplete ==
    poll.response # None =>
        LET r == poll.response[1]
        IN r.full_response # None =>
              /\ r.status = "complete"
              /\ r.full_response[1] = ConcatByIndex(r.chunks, 0)

\* a poll of a completed job answered with the response of the agent
C14_Witness ==
    /\ poll.pc = "idle"
    /\ poll.response # None
    /\ poll.response[1].status = "complete"
    /\ poll.response[1].full_response \in {Some(<<t>>) : t \in Tokens}
    /\ outcome[poll.job] = "returned"

\* C15: the Runners that one discovery cycle launched for different
\* conversations interleave: while two of them are inside the executor,
\* each one can take its next step without waiting for the other (so jobs
\* of two conversations are in progress at the same time).
C15_RunnersInterleave ==
    \A p \in Procs, u \in Users, v \in Users :
        (u # v /\ runner[p][u].pc \in ExecPcs /\ runner[p][v].pc \in ExecPcs)
            => (ENABLED ExecutorOk(p, u)) /\ (ENABLED ExecutorOk(p, v))

\* a job of u1 and a job of u2 both read in_progress while both are being
\* executed by Runners of the same cycle
C15_Witness ==
    \E p \in Procs :
        /\ sup[p].pc = "gather"
        /\ runner[p]["u1"].pc \in {"msg", "meta"}
        /\ runner[p]["u2"].pc \in {"msg", "meta"}
        /\ StatusNow(JobOf(p, "u1")) = "in_progress"
        /\ StatusNow(JobOf(p, "u2")) = "in_progress"
        /\ outcome[JobOf(p, "u1")] = "running"
        /\ outcome[JobOf(p, "u2")] = "running"

\* C16 as stated: an entry whose executor call raised is acknowledged by the
\* Runner: when the Runner that claimed it is back at its next claim (or
\* has exited), the entry is not in the pending set of the group.
C16_FailedEntryAcknowledged ==
    \A p \in Procs, u \in Users : \A i \in 1..lastId[u] :
        (/\ outcome[<<u, i>>] = "raised"
         /\ owner[<<u, i>>] = CONSUMER_ID(p)
         /\ runner[p][u].pc \in {"loop", "exited", "none"})
            => i \notin PelIds(u)

\* the runner of (p, u) is on the path taken after process_pdf_document
\* raised
OnDocFailPath(p, u) == runner[p][u].pc \in {"doc_chunk", "doc_msg", "doc_meta"}

\* C17: after the document pre-processing failed the executor never reaches
\* the agent; it returns (it does not raise) with the Completion Record
\* written, one chunk of index 0 holding the error text appended (unless
\* the key expired meanwhile) and the status complete; a returned job never
\* reads in_progress; and the Runner's next step acknowledges the entry,
\* unless XACK itself raises or the process is killed.
C17_DocumentFailureCompletes ==
    /\ [](\A j \in Jobs : outcome[j] = "returned" => StatusNow(j) # "in_progress")
    /\ [][\A p \in Procs, u \in Users :
            /\ OnDocFailPath(p, u) =>
                   /\ runner'[p][u].pc \notin {"stream", "chunk", "msg", "meta"}
                   /\ runner[p][u].full = DocErrorText
            /\ (OnDocFailPath(p, u) /\ runner'[p][u].pc = "ack") =>
                   LET j == JobOf(p, u)
                   IN /\ outcome'[j] = "returned"
                      /\ meta'[j] # None
                      /\ meta'[j][1].error
                      /\ meta'[j][1].total_chunks = 1
                      /\ StatusNow(j)' = "complete"
                      /\ <<"chunks", j>> \notin expired =>
                             chunks'[j] = <<[index |-> 0,
                                            content |-> DocErrorText]>>
            /\ (runner[p][u].pc = "ack" /\ runner'[p][u].pc # "ack") =>
                   \/ runner[p][u].id \notin {e.id : e \in group'[u].pel}
                   \/ faults' = faults + 1]_vars

\* the job of a document that could not be processed is complete with its
\* one error chunk, and its entry is acknowledged
C17_Witness ==
    \E u \in Users, i \in EntryIds :
        /\ jobDoc[<<u, i>>]
        /\ outcome[<<u, i>>] = "returned"
        /\ meta[<<u, i>>] # None
        /\ meta[<<u, i>>][1].error
        /\ chunks[<<u, i>>] = <<[index |-> 0, content |-> DocErrorText]>>
        /\ StatusNow(<<u, i>>) = "complete"
        /\ group[u].last >= i
        /\ i \notin PelIds(u)

\* the Completion Record of job j, written after the agent's stream ended
\* normally, references a saved assistant message
RecordHasMessage(j) ==
    LET m == meta[j][1]
    IN /\ m.db_message_id \in 1..Len(messages[j[1]])
       /\ messages[j[1]][m.db_message_id].role = "assistant"

\* C18 as stated: whenever there is a Completion Record of a job whose
\* stream ended normally, the full response is saved as an assistant
\* message that the record references, and the record's total_chunks is the
\* number of chunks in the chunk list of the job.
C18_RecordCountIsListLength ==
    \A j \in Jobs :
        (meta[j] # None /\ ~meta[j][1].error) =>
            /\ RecordHasMessage(j)
            /\ meta[j][1].total_chunks = Len(get_job_chunks(j, 0))

\* C18 amended: the message is saved and referenced whenever the record
\* exists; total_chunks is the length of the chunk list, and the message is
\* the chunks put together, as long as job:chunks:<job> has not expired.
C18_RecordAfterMessage ==
    \A j \in Jobs :
        (meta[j] # None /\ ~meta[j][1].error) =>
            /\ RecordHasMessage(j)
            /\ <<"chunks", j>> \notin expired =>
                   /\ meta[j][1].total_chunks = Len(get_job_chunks(j, 0))
                   /\ messages[j[1]][meta[j][1].db_message_id].content
                          = Join(get_job_chunks(j, 0))

\* the record of a normally ended job is still there, with its message,
\* after the chunks of the job expired
C18_Witness ==
    \E j \in Jobs :
        /\ meta[j] # None
        /\ ~meta[j][1].error
        /\ RecordHasMessage(j)
        /\ <<"chunks", j>> \in expired
        /\ meta[j][1].total_chunks = 1
        /\ get_job_chunks(j, 0) = <<>>

\* C19: an exception in the executor of (p, u) ends the call as a failure
\* that reaches the Runner's except (the entry is not acknowledged), with
\* no Completion Record and no chunk written by the step; with a non-empty
\* buffer the only message it may add is the buffer under the prefix
\* "[Partial - Error] " (added, or not when that save fails too), and with
\* an empty buffer it adds none.
C19_PartialSavedAndRaised ==
    [][\A p \in Procs, u \in Users :
          (/\ faults' = faults + 1
           /\ runner[p][u].pc \in ExecPcs
           /\ runner'[p][u] # runner[p][u]
           /\ sup'[p].pc # "dead")
          => LET j == JobOf(p, u)
                 full == runner[p][u].full
             IN /\ outcome'[j] = "raised"
                /\ runner'[p][u].pc = "backoff"
                /\ meta[j] = None
                /\ meta' = meta
                /\ chunks' = chunks
                /\ group' = group
                /\ \/ messages' = messages
                   \/ /\ full # <<>>
                      /\ messages' = [messages EXCEPT ![u] =
                            Append(@, [role |-> "assistant",
                                       content |-> <<"[Partial - Error] ">>
                                                      \o full])]]_vars

\* the executor raised with a fragment in its buffer: the fragment is the
\* last message of the conversation, with the prefix, there is no record,
\* and the Runner is in its except
C19_Witness ==
    \E p \in Procs, u \in Users, i \in EntryIds, t \in Tokens :
        /\ outcome[<<u, i>>] = "raised"
        /\ meta[<<u, i>>] = None
        /\ runner[p][u].pc = "backoff"
        /\ i \in PelIds(u)
        /\ Len(messages[u]) >= 1
        /\ messages[u][Len(messages[u])].content = <<"[Partial - Error] ", t>>

\* C20 as stated: no failure of Redis during the discovery, a claim or an
\* acknowledge ends the loop of run_stream_consumer: a step in which such a
\* failure happens leaves the main loop of the process where it was.
C20_SupervisorSurvivesFailures ==
    [][\A p \in Procs :
          (faults' = faults + 1 /\ sup'[p].pc # "dead")
              => (sup'[p].pc # "terminated" /\ sup'[p].running)]_vars

\* C21: set_job_metadata is called at most once for a job, and a Completion
\* Record that exists is never changed: the only step that changes it is
\* the expiry of its key.
C21_RecordWrittenOnce ==
    /\ [](\A j \in Jobs : metaWrites[j] <= 1)
    /\ [][\A j \in Jobs :
            meta[j] # None =>
                \/ meta'[j] = meta[j]
                \/ meta'[j] = None /\ <<"meta", j>> \in expired' \ expired]_vars

\* the record of a job was written, the job returned and its Runner claimed
\* the next entry of the conversation, with one write counted
C21_Witness ==
    \E p \in Procs, u \in Users :
        /\ metaWrites[<<u, 1>>] = 1
        /\ meta[<<u, 1>>] # None
        /\ outcome[<<u, 1>>] = "returned"
        /\ runner[p][u].pc \in ExecPcs
        /\ runner[p][u].id = 2

\* C22 as stated: discover_active_streams puts a conversation in its result
\* only when the log of the conversation has a pending or an undelivered
\* entry at that moment.
C22_DiscoveryReturnsOnlyActive ==
    [][\A p \in Procs, u \in Users :
          (u \in sup'[p].active /\ u \notin sup[p].active)
              => (HasPending(u) \/ Undelivered(u) # {})]_vars

\* C23: a claim that returns no entry ends the Runner; and, the entries
\* being finitely many and every executor call returning or raising, every
\* Runner that was launched exits and the main loop gets from its gather
\* to the next discovery cycle.
C23_RunnersExit ==
    /\ [][\A p \in Procs, u \in Users :
            (/\ runner[p][u].pc = "loop"
             /\ runner'[p][u] # runner[p][u]
             /\ faults' = faults
             /\ NewEntries(stream[u], ensure_consumer_group(group[u])) = {})
                => runner'[p][u].pc = "exited"]_vars
    /\ \A u \in Users :
          (runner["p1"][u].pc = "loop") ~> (runner["p1"][u].pc = "exited")
    /\ (sup["p1"].pc = "gather") ~> (sup["p1"].pc = "cycle")

\* a Runner exited after an empty claim that followed a job it executed,
\* while the main loop is still in its gather
C23_Witness ==
    \E u \in Users :
        /\ sup["p1"].pc = "gather"
        /\ runner["p1"][u].pc = "exited"
        /\ outcome[<<u, 1>>] \in {"returned", "raised"}
        /\ owner[<<u, 1>>] = CONSUMER_ID("p1")

\* the Runner of (p, u) was launched and has not exited
LiveRunner(p, u) == runner[p][u].pc \notin {"none", "exited"}

\* C24: in one process no Runner is live while a discovery is under way;
\* when the discovery returns, a Runner is launched for each conversation
\* of its result and for no other; Runners are live only for conversations
\* of that result; and the main loop leaves its gather for the next cycle
\* only when every Runner it launched has exited.
C24_OneRunnerPerCycle ==
    /\ [](\A p \in Procs, u \in Users :
            /\ sup[p].pc \in {"cycle", "scan"} => runner[p][u].pc = "none"
            /\ LiveRunner(p, u) => (sup[p].pc = "gather" /\ u \in sup[p].active))
    /\ [][\A p \in Procs :
            /\ (sup[p].pc = "scan" /\ sup'[p].pc = "gather") =>
                   \A u \in Users :
                       (runner'[p][u].pc = "loop") <=> (u \in sup[p].active)
            /\ (sup[p].pc = "gather" /\ sup'[p].pc = "cycle") =>
                   \A u \in sup[p].active : runner[p][u].pc = "exited"]_vars

\* the second discovery cycle of a process has launched its Runners after
\* the Runners of the first one executed a job and exited
C24_Witness ==
    \E p \in Procs, u \in Users :
        /\ sup[p].pc = "gather"
        /\ sup[p].active = Users
        /\ runner[p][u].pc = "loop"
        /\ outcome[<<u, 1>>] = "returned"
        /\ owner[<<u, 1>>] = CONSUMER_ID(p)
        /\ 1 \notin PelIds(u)
        /\ Undelivered(u) = {}

HasRaised(u) == \E i \in 1..lastId[u] : outcome[<<u, i>>] = "raised"

\* C26: an entry leaves the pending set only when its executor call has
\* returned; an entry whose executor call raised is in the pending set in
\* every later state; and every discovery that returns after that has the
\* conversation in its result.
C26_RaisedEntryStaysPending ==
    /\ [](\A u \in Users : \A i \in 1..lastId[u] :
            outcome[<<u, i>>] = "raised" => i \in PelIds(u))
    /\ [][\A u \in Users : \A i \in 1..lastId[u] :
            (i \in PelIds(u) /\ i \notin {e.id : e \in group'[u].pel})
                => outcome[<<u, i>>] = "returned"]_vars
    /\ [][\A p \in Procs, u \in Users :
            (/\ sup[p].pc = "scan"
             /\ sup'[p].pc \in {"gather", "cycle"}
             /\ HasRaised(u))
                => (u \in sup[p].active /\ sup'[p].pc = "gather")]_vars

\* a later discovery found the conversation active although its only
\* entry, whose executor call raised, was delivered long ago
C26_Witness ==
    \E p \in Procs, u \in Users :
        /\ sup[p].pc = "scan"
        /\ u \in sup[p].active
        /\ lastId[u] = 1
        /\ outcome[<<u, 1>>] = "raised"
        /\ 1 \in PelIds(u)
        /\ Undelivered(u) = {}

\* the Runner of (p, u) gets an entry from its claim in this step
ClaimStep(p, u) == runner[p][u].pc = "loop" /\ runner'[p][u].pc = "start"

\* C27 as stated: the first claim on a conversation, which creates the
\* group, returns the oldest entry that was appended, and a claim never
\* skips an entry: every entry appended before the one it returns was
\* delivered before.
C27_NoAppendedEntrySkipped ==
    [][\A p \in Procs, u \in Users :
          ClaimStep(p, u) =>
              /\ ~group[u].created => runner'[p][u].id = 1
              /\ \A i \in 1..(runner'[p][u].id - 1) :
                    outcome[<<u, i>>] # "none"]_vars

\* C27 amended: the group is created at the start of the log, so the first
\* claim returns the oldest entry that is still in the log, and every claim
\* returns the oldest entry of the log not delivered yet: an entry before
\* the returned one was delivered before or was evicted by the trimming;
\* no entry of the log at or below the group's last delivered id was left
\* undelivered.
C27_OldestStoredEntryFirst ==
    /\ [](\A u \in Users : \A i \in Range(stream[u]) :
            (group[u].created /\ i <= group[u].last)
                => outcome[<<u, i>>] # "none")
    /\ [][\A p \in Procs, u \in Users :
            ClaimStep(p, u) =>
                /\ runner'[p][u].id \in Range(stream[u])
                /\ ~group[u].created => runner'[p][u].id = Head(stream[u])
                /\ \A i \in 1..(runner'[p][u].id - 1) :
                      outcome[<<u, i>>] # "none" \/ i \notin Range(stream[u])
                /\ group'[u].created
                /\ group'[u].last = runner'[p][u].id]_vars

\* two entries were appended before the group existed, the first claim
\* returned the first one and the next claim returns the second
C27_Witness ==
    \E p \in Procs, u \in Users :
        /\ runner[p][u].pc = "start"
        /\ runner[p][u].id = 2
        /\ owner[<<u, 1>>] = CONSUMER_ID(p)
        /\ outcome[<<u, 1>>] = "returned"
        /\ stream[u] = <<1, 2>>
        /\ metaWrites[<<u, 2>>] = 0

\* C28: every poll response is consistent in itself, also when the executor
\* writes while the poll runs: total_chunks is the number of chunks of the
\* response, complete is true exactly when the status is complete, and a
\* response with the status queued has no chunks.
C28_PollResponseConsistent ==
    poll.response # None =>
        LET r == poll.response[1]
        IN /\ r.total_chunks = Len(r.chunks)
           /\ r.complete <=> (r.status = "complete")
           /\ r.status = "queued" => r.chunks = <<>>

\* C29 as stated: the Completion Record never outlives the chunks: whenever
\* the status of a job is complete at least one chunk is readable, and a
\* poll response that is complete carries full_response.
C29_RecordNeverOutlivesChunks ==
    /\ \A j \in Jobs :
          StatusNow(j) = "complete" => get_job_chunks(j, 0) # <<>>
    /\ poll.response # None =>
          (poll.response[1].complete
              => poll.response[1].full_response # None)

\* C29 amended: the chunk list gets its TTL before the record is written,
\* so it is the chunk list that expires first: a record without readable
\* chunks is one whose chunk list expired, a record is never gone before
\* its chunk list is, and a complete poll response carries full_response,
\* the chunks put together, unless the chunk list of the job expired (it
\* then has no chunks and no full_response).
C29_ChunksExpireFirst ==
    /\ \A j \in Jobs :
          /\ (StatusNow(j) = "complete" /\ get_job_chunks(j, 0) = <<>>)
                 => <<"chunks", j>> \in expired
          /\ <<"meta", j>> \in expired => <<"chunks", j>> \in expired
    /\ poll.response # None =>
          LET r == poll.response[1]
          IN r.complete =>
                IF r.chunks # <<>>
                THEN r.full_response = Some(Join(r.chunks))
                ELSE /\ r.full_response = None
                     /\ <<"chunks", poll.job>> \in expired

\* a poll of a job whose chunk list expired and whose record has not: the
\* response is complete and has neither chunks nor full_response
C29_Witness ==
    /\ poll.pc = "idle"
    /\ poll.response # None
    /\ poll.response[1].complete
    /\ poll.response[1].chunks = <<>>
    /\ poll.response[1].full_response = None
    /\ meta[poll.job] # None
    /\ <<"chunks", poll.job>> \in expired

\* C30: an execution of a job persists at most one assistant message,
\* whichever step fails: once it has saved the full response or the
\* document-error text (it is before its set_job_metadata), no step of it
\* adds another message to the conversation.
C30_OneMessagePerExecution ==
    [][\A p \in Procs, u \in Users :
          runner[p][u].pc \in {"meta", "doc_meta"}
              => messages'[u] = messages[u]]_vars

====
